---------------------------- MODULE Spec2Model ----------------------------
(***************************************************************************)
(* Model of src/api/body.py: the payment API that keeps a local index      *)
(* (user_table, currency_table, tx_table) in front of the BBc-1 ledger.    *)
(*                                                                         *)
(* Every request handler is split into one step per access to shared       *)
(* state: one SQL statement of Store (each statement is its own database   *)
(* transaction) or one call to the external ledger / identity registry.    *)
(* Code between two such accesses is local to the request and belongs to   *)
(* the step of the access that precedes it; the code before the first      *)
(* access belongs to the first step.  A request parameter is drawn where   *)
(* the handler first looks at it: after an abort for a missing parameter   *)
(* the parameters that were not yet checked stay undrawn.                  *)
(*                                                                         *)
(* Optional values (Python None) are sequences of length 0 or 1.           *)
(* Identifiers (bytes) and names (str) are strings from disjoint sets.     *)
(* Amount strings are tuples of characters.                                *)
(***************************************************************************)
EXTENDS Integers, Sequences, FiniteSets, TLC

VARIABLES
    user_table,      \* rows of user_table, in rowid order
    currency_table,  \* rows of currency_table, in rowid order
    tx_table,        \* rows of tx_table, in rowid order
    next_id,         \* identity registry: identities created so far
    next_tx,         \* ledger: transactions accepted so far
    conditions,      \* ledger: mints whose condition has been set
    specs,           \* ledger: registered currency specs, one record per mint
    op,              \* per request slot: the handler being run ("idle" if none)
    pc,              \* per request slot: the handler's position
    locals,          \* per request slot: the handler's local variables, the
                     \* request's parameters among them once it has read them
    response,        \* per request slot: the response (status code and body)
    pre              \* per request slot: the three tables when the request began

vars == <<user_table, currency_table, tx_table, next_id, next_tx, conditions,
          specs, op, pc, locals, response, pre>>

tables == <<user_table, currency_table, tx_table>>
ledger == <<next_id, next_tx, conditions, specs>>

-----------------------------------------------------------------------------
(* Bounds *)

MaxIds == 3        \* identities the registry hands out
MaxTx == 2         \* transactions the ledger accepts
MaxSwapIds == 4    \* identities the registry hands out, under SpecSwap
MaxSwapTx == 1     \* transactions the ledger accepts, under SpecSwap
MaxRaceIds == 2    \* identities the registry hands out, under the races
MaxRaceTx == 2     \* transactions the ledger accepts, under SpecQueryRace
MaxTransferIds == 3    \* identities the registry hands out, under SpecTransfer
MaxTransferTx == 2     \* transactions the ledger accepts, under SpecTransfer
MaxRotateIds == 3      \* identities the registry hands out, under SpecRotate
MaxRotateTx == 1       \* transactions the ledger accepts, under SpecRotate
MaxRotations == 2      \* replacements of one user's keypair
MaxAmountIds == 3      \* identities the registry hands out, under SpecAmount
MaxAmountTx == 1       \* transactions the ledger accepts, under SpecAmount
MaxDisjointTx == 3     \* transactions the ledger accepts, under SpecDisjoint
MaxLedgerIds == 3       \* identities the registry hands out, under SpecLedger
MaxLedgerTx == 1        \* transactions the ledger accepts, under SpecLedger
MaxLedgerRotations == 1 \* replacements of one user's keypair, under SpecLedger
MaxAbortIds == 3        \* identities the registry hands out, under SpecAbort
MaxAbortTx == 1         \* transactions the ledger accepts, under SpecAbort
MaxAbortRotations == 1  \* replacements of one user's keypair, under SpecAbort

(* Program constants *)

IDX_USER_ID == 0
IDX_NAME == 1
IDX_TX_ID == 0

LABEL_JOINED == "__joined__"

None == <<>>
Some(x) == <<x>>
IsNone(o) == o = <<>>
The(o) == o[1]
Opt(S) == {None} \cup {Some(x) : x \in S}

Procs == {1, 2}

\* Identifiers the registry hands out, in order; the last ones are never
\* handed out, so a request can name an id that does not exist.
IdPool == <<"id1", "id2", "id3", "id4", "id5", "id6", "id7">>
IdOf(n) == IdPool[n]

\* The transaction id the ledger gives its n-th transaction (a digest).
TxIdOf(n) == <<n>>

\* bbclib.KeyPair generated for the n-th identity.
KeyPair(n) == [public_key |-> <<"pub", n>>, private_key |-> <<"priv", n>>]

-----------------------------------------------------------------------------
(* Store *)

User(user_id, name, keypair) ==
    [user_id |-> user_id, name |-> name, keypair |-> keypair]

\* a table row (user_id, name, public_key, private_key)
UserRow(user) ==
    [user_id |-> user.user_id, name |-> user.name,
     public_key |-> user.keypair.public_key,
     private_key |-> user.keypair.private_key]

from_row(row) ==
    User(row.user_id, row.name,
         [public_key |-> row.public_key, private_key |-> row.private_key])

RECURSIVE SelectSeq2(_, _, _)
\* the rows of table t (in rowid order) that satisfy Test
SelectSeq2(t, Test(_), i) ==
    IF i > Len(t) THEN <<>>
    ELSE IF Test(t[i]) THEN <<t[i]>> \o SelectSeq2(t, Test, i + 1)
    ELSE SelectSeq2(t, Test, i + 1)

Where(t, Test(_)) == SelectSeq2(t, Test, 1)

\* Store.user_exists: select rowid from <table> where name=?
user_exists(name, table) ==
    LET rows == Where(table, LAMBDA r : r.name = name)
    IN Len(rows) > 0

\* Store.get_user: select * from <table> where user_id=?
get_user(user_id, table) ==
    LET rows == Where(table, LAMBDA r : r.user_id = user_id)
    IN IF Len(rows) <= 0 THEN None ELSE Some(from_row(rows[1]))

\* Store.read_user: select * from <table> where name=?
read_user(name, table) ==
    LET rows == Where(table, LAMBDA r : r.name = name)
    IN IF Len(rows) <= 0 THEN None ELSE Some(from_row(rows[1]))

\* the primary key (user_id) of the identity tables: an insert of a row
\* whose key is already there is refused
PrimaryKeyFree(key, table, Key(_)) ==
    \A i \in 1..Len(table) : Key(table[i]) # key

\* Store.write_user: insert into <table> values (?, ?, ?, ?)
write_user(user, table) == Append(table, UserRow(user))

\* an insert that replaces the rows of the same mint_id and to_name
write_tx_or_replace(table, tx_id, timestamp, mint_id, from_name, to_name, amount, label) ==
    Append(Where(table, LAMBDA r : ~(r.mint_id = mint_id /\ r.to_name = to_name)),
           [tx_id |-> tx_id, timestamp |-> timestamp, mint_id |-> mint_id,
            from_name |-> from_name, to_name |-> to_name, amount |-> amount,
            label |-> label])

\* Store.write_tx: insert into tx_table values (?, ?, ?, ?, ?, ?, ?)
write_tx(table, tx_id, timestamp, mint_id, from_name, to_name, amount, label) ==
    Append(table,
           [tx_id |-> tx_id, timestamp |-> timestamp, mint_id |-> mint_id,
            from_name |-> from_name, to_name |-> to_name, amount |-> amount,
            label |-> label])

-----------------------------------------------------------------------------
(* Amounts: float(amount) * (10 ** decimal), int(), and '{0:.Nf}'.format *)

DigitChars == <<"0", "1", "2", "3", "4", "5", "6", "7", "8", "9">>
IsDigit(c) == \E i \in 1..10 : DigitChars[i] = c
DigitVal(c) == (CHOOSE i \in 1..10 : DigitChars[i] = c) - 1

RECURSIVE Pow10(_)
Pow10(n) == IF n = 0 THEN 1 ELSE 10 * Pow10(n - 1)

RECURSIVE ParseDigits(_, _, _, _, _, _)
\* reads s[i..]: digits with at most one "."; num / 10^scale is the value
\* read so far, n the number of digits read
ParseDigits(s, i, num, scale, dot, n) ==
    IF i > Len(s)
    THEN IF n > 0 THEN Some([num |-> num, scale |-> scale]) ELSE None
    ELSE IF IsDigit(s[i])
         THEN ParseDigits(s, i + 1, 10 * num + DigitVal(s[i]),
                          IF dot THEN scale + 1 ELSE scale, dot, n + 1)
         ELSE IF s[i] = "." /\ ~dot
              THEN ParseDigits(s, i + 1, num, scale, TRUE, n)
              ELSE None

\* float(amount): None when Python raises ValueError; otherwise the value
\* sign * num / 10^scale.  The amounts of the model have few enough digits
\* that the double nearest to them scales to the exact product.
float(amount) ==
    LET neg == Len(amount) > 0 /\ amount[1] = "-"
        signed == Len(amount) > 0 /\ (amount[1] = "-" \/ amount[1] = "+")
        mag == ParseDigits(amount, IF signed THEN 2 ELSE 1, 0, 0, FALSE, 0)
    IN IF IsNone(mag) THEN None
       ELSE Some([neg |-> neg, num |-> The(mag).num, scale |-> The(mag).scale])

\* int(float(amount) * (10 ** decimal)): int() truncates toward zero
to_units(amount, decimal) ==
    LET f == The(float(amount))
        q == (f.num * Pow10(decimal)) \div Pow10(f.scale)
    IN IF f.neg THEN 0 - q ELSE q

RECURSIVE DigitsOf(_)
\* the decimal digits of n >= 0
DigitsOf(n) ==
    IF n < 10 THEN <<DigitChars[n + 1]>>
    ELSE DigitsOf(n \div 10) \o <<DigitChars[(n % 10) + 1]>>

RECURSIVE ZeroPad(_, _)
ZeroPad(digits, width) ==
    IF Len(digits) >= width THEN digits ELSE ZeroPad(<<"0">> \o digits, width)

\* ('{0:.%df}' % decimal).format(value / (10 ** decimal))
to_display(value, decimal) ==
    LET mag == IF value < 0 THEN 0 - value ELSE value
        whole == DigitsOf(mag \div Pow10(decimal))
        frac == ZeroPad(DigitsOf(mag % Pow10(decimal)), decimal)
        sign == IF value < 0 THEN <<"-">> ELSE <<>>
    IN IF decimal = 0 THEN sign \o whole
       ELSE sign \o whole \o <<".">> \o frac

-----------------------------------------------------------------------------
(* Requests *)

NoLocals == [none |-> TRUE]
NoResponse == [code |-> 0, body |-> None]

\* Store.setup: the three tables exist and are empty; no request is running
Init ==
    /\ user_table = <<>>
    /\ currency_table = <<>>
    /\ tx_table = <<>>
    /\ next_id = 0
    /\ next_tx = 0
    /\ conditions = {}
    /\ specs = {}
    /\ op = [p \in Procs |-> "idle"]
    /\ pc = [p \in Procs |-> "idle"]
    /\ locals = [p \in Procs |-> NoLocals]
    /\ response = [p \in Procs |-> NoResponse]
    /\ pre = [p \in Procs |-> <<>>]

\* before_request and the routing to handler o, which runs up to `at`
Enter(p, o, at, l, r) ==
    /\ op' = [op EXCEPT ![p] = o]
    /\ pc' = [pc EXCEPT ![p] = at]
    /\ locals' = [locals EXCEPT ![p] = l]
    /\ response' = [response EXCEPT ![p] = r]
    /\ pre' = [pre EXCEPT ![p] = tables]

Begin(p, o, at, l) == Enter(p, o, at, l, NoResponse)

\* the handler aborts (400, 404, 409: error_handler) or raises (500: an
\* exception no handler catches) in its first step
BeginAbort(p, o, code, l) == Enter(p, o, "done", l, [code |-> code, body |-> None])

\* the handler moves on to its next step
Goto(p, at, l) ==
    /\ pc' = [pc EXCEPT ![p] = at]
    /\ locals' = [locals EXCEPT ![p] = l]
    /\ UNCHANGED <<op, response, pre>>

\* the handler returns its response
Respond(p, code, body, l) ==
    /\ pc' = [pc EXCEPT ![p] = "done"]
    /\ locals' = [locals EXCEPT ![p] = l]
    /\ response' = [response EXCEPT ![p] = [code |-> code, body |-> body]]
    /\ UNCHANGED <<op, pre>>

\* abort(code, ...) and uncaught exceptions
Abort(p, code, l) == Respond(p, code, None, l)

\* after_request: the request's store is closed and the slot is free again
after_request(p) ==
    /\ pc[p] = "done"
    /\ op' = [op EXCEPT ![p] = "idle"]
    /\ pc' = [pc EXCEPT ![p] = "idle"]
    /\ locals' = [locals EXCEPT ![p] = NoLocals]
    /\ response' = [response EXCEPT ![p] = NoResponse]
    /\ pre' = [pre EXCEPT ![p] = <<>>]
    /\ UNCHANGED <<tables, ledger>>

At(p, o, at) == op[p] = o /\ pc[p] = at

-----------------------------------------------------------------------------
(* The external collaborators *)

\* g.idPubkeyMap.create_user_id(num_pubkeys=1): a fresh id and its keypair
create_user_id == [user_id |-> IdOf(next_id + 1), keypair |-> KeyPair(next_id + 1)]

\* token_lib.BBcMint.get_currency_spec: the spec registered for the mint
get_currency_spec(mint_id) ==
    IF \E s \in specs : s.mint_id = mint_id
    THEN Some(CHOOSE s \in specs : s.mint_id = mint_id)
    ELSE None

\* the transaction the ledger returns: its id and its timestamp
Tx(n, timestamp) == [transaction_id |-> TxIdOf(n), timestamp |-> timestamp]

\* get_timestamp_in_seconds(tx)
get_timestamp_in_seconds(tx) == tx.timestamp

\* a call that makes the ledger accept a transaction: it returns the
\* transaction, or fails
LedgerTx(p, In, at, WithTx(_)) ==
    /\ UNCHANGED <<tables, next_id, conditions, specs>>
    /\ \E failed \in In.fail :
          IF failed
          THEN /\ UNCHANGED next_tx
               /\ Abort(p, 500, locals[p])
          ELSE /\ next_tx < In.max_tx
               /\ next_tx' = next_tx + 1
               /\ \E timestamp \in In.timestamps :
                     Goto(p, at, WithTx(Some(Tx(next_tx + 1, timestamp))))

-----------------------------------------------------------------------------
(* POST /user *)

define_user_begin(p, In) ==
    /\ op[p] = "idle"
    /\ UNCHANGED <<tables, ledger>>
    /\ \E name \in Opt(In.user_names) :
          LET l == [name |-> name, user |-> None]
          IN IF IsNone(name)
             THEN BeginAbort(p, "define_user", 400, l)
             ELSE IF user_exists(The(name), user_table)
                  THEN BeginAbort(p, "define_user", 409, l)
                  ELSE Begin(p, "define_user", "exists_currency", l)

\* define_user without its look at currency_table
define_user_skips_currency_table(p) ==
    /\ At(p, "define_user", "exists_currency")
    /\ UNCHANGED <<tables, ledger>>
    /\ Goto(p, "create", locals[p])

\* if g.store.user_exists(name, 'currency_table'): abort(409)
define_user_exists_currency(p) ==
    /\ At(p, "define_user", "exists_currency")
    /\ UNCHANGED <<tables, ledger>>
    /\ IF user_exists(The(locals[p].name), currency_table)
       THEN Abort(p, 409, locals[p])
       ELSE Goto(p, "create", locals[p])

\* user_id, keypairs = g.idPubkeyMap.create_user_id(num_pubkeys=1)
define_user_create(p, In) ==
    /\ At(p, "define_user", "create")
    /\ UNCHANGED <<tables, next_tx, conditions, specs>>
    /\ \E failed \in In.fail :
          IF failed
          THEN /\ UNCHANGED next_id
               /\ Abort(p, 500, locals[p])
          ELSE /\ next_id < In.max_ids
               /\ next_id' = next_id + 1
               /\ Goto(p, "write",
                       [locals[p] EXCEPT
                           !.user = Some(User(create_user_id.user_id,
                                              The(locals[p].name),
                                              create_user_id.keypair))])

\* g.store.write_user(User(user_id, name, keypairs[0]), 'user_table')
define_user_write(p) ==
    /\ At(p, "define_user", "write")
    /\ LET user == The(locals[p].user)
       IN /\ UNCHANGED <<currency_table, tx_table, ledger>>
          /\ IF PrimaryKeyFree(user.user_id, user_table, LAMBDA r : r.user_id)
             THEN /\ user_table' = write_user(user, user_table)
                  /\ Respond(p, 201, Some([name |-> user.name,
                                           user_id |-> user.user_id]), locals[p])
             ELSE /\ UNCHANGED user_table
                  /\ Abort(p, 500, locals[p])

define_user(p, In) ==
    \/ define_user_begin(p, In)
    \/ define_user_exists_currency(p)
    \/ define_user_create(p, In)
    \/ define_user_write(p)

-----------------------------------------------------------------------------
(* POST /currency *)

\* Content-Type, name and symbol are checked in this order, then
\* g.store.user_exists(name, 'currency_table')
define_currency_begin(p, In) ==
    /\ op[p] = "idle"
    /\ UNCHANGED <<tables, ledger>>
    /\ \E content_type \in In.content_types, name \in Opt(In.currency_names),
          symbol \in Opt(In.symbols) :
          LET l == [content_type |-> content_type, name |-> name,
                    symbol |-> symbol, mint_id |-> None, keypair |-> None,
                    currency_spec |-> None]
          IN IF content_type # "application/json"
                \/ IsNone(name) \/ IsNone(symbol)
             THEN BeginAbort(p, "define_currency", 400, l)
             ELSE IF user_exists(The(name), currency_table)
                  THEN BeginAbort(p, "define_currency", 409, l)
                  ELSE Begin(p, "define_currency", "exists_user", l)

\* define_currency writing its row before it looks at user_table
define_currency_exists_user_after_write(p) ==
    /\ At(p, "define_currency", "exists_user")
    /\ UNCHANGED <<user_table, tx_table, ledger>>
    /\ IF user_exists(The(locals[p].name), user_table)
       THEN /\ currency_table' =
                  write_user(User(create_user_id.user_id, The(locals[p].name),
                                  create_user_id.keypair), currency_table)
            /\ Abort(p, 409, locals[p])
       ELSE /\ UNCHANGED currency_table
            /\ Goto(p, "create", locals[p])

\* if g.store.user_exists(name, 'user_table'): abort(409)
define_currency_exists_user(p) ==
    /\ At(p, "define_currency", "exists_user")
    /\ UNCHANGED <<tables, ledger>>
    /\ IF user_exists(The(locals[p].name), user_table)
       THEN Abort(p, 409, locals[p])
       ELSE Goto(p, "create", locals[p])

\* mint_id, keypairs = g.idPubkeyMap.create_user_id(num_pubkeys=1)
\* currency_spec = token_lib.CurrencySpec(request.json)
define_currency_create(p, In) ==
    /\ At(p, "define_currency", "create")
    /\ UNCHANGED <<tables, next_tx, conditions, specs>>
    /\ \E failed \in In.fail :
          IF failed
          THEN /\ UNCHANGED next_id
               /\ Abort(p, 500, locals[p])
          ELSE /\ next_id < In.max_ids
               /\ next_id' = next_id + 1
               /\ \E decimal \in In.decimals :
                     Goto(p, "set_condition",
                          [locals[p] EXCEPT
                              !.mint_id = Some(create_user_id.user_id),
                              !.keypair = Some(create_user_id.keypair),
                              !.currency_spec =
                                  Some([mint_id |-> create_user_id.user_id,
                                        symbol |-> The(locals[p].symbol),
                                        decimal |-> decimal])])

\* g.mint.set_condition(0, keypair=keypairs[0])
define_currency_set_condition(p, In) ==
    /\ At(p, "define_currency", "set_condition")
    /\ UNCHANGED <<tables, next_id, next_tx, specs>>
    /\ \E failed \in In.fail :
          IF failed
          THEN /\ UNCHANGED conditions
               /\ Abort(p, 500, locals[p])
          ELSE /\ conditions' = conditions \cup {The(locals[p].mint_id)}
               /\ Goto(p, "set_currency_spec", locals[p])

\* g.mint.set_currency_spec(currency_spec, keypair=keypairs[0])
define_currency_set_currency_spec(p, In) ==
    /\ At(p, "define_currency", "set_currency_spec")
    /\ UNCHANGED <<tables, next_id, next_tx, conditions>>
    /\ \E failed \in In.fail :
          IF failed
          THEN /\ UNCHANGED specs
               /\ Abort(p, 500, locals[p])
          ELSE /\ specs' = specs \cup {The(locals[p].currency_spec)}
               /\ Goto(p, "write", locals[p])

\* g.store.write_user(User(mint_id, name, keypairs[0]), 'currency_table')
define_currency_write(p) ==
    /\ At(p, "define_currency", "write")
    /\ LET l == locals[p]
           currency == User(The(l.mint_id), The(l.name), The(l.keypair))
       IN /\ UNCHANGED <<user_table, tx_table, ledger>>
          /\ IF PrimaryKeyFree(currency.user_id, currency_table,
                               LAMBDA r : r.user_id)
             THEN /\ currency_table' = write_user(currency, currency_table)
                  /\ Respond(p, 200, Some([name |-> currency.name,
                                           symbol |-> The(l.symbol),
                                           mint_id |-> currency.user_id]), l)
             ELSE /\ UNCHANGED currency_table
                  /\ Abort(p, 500, l)

define_currency(p, In) ==
    \/ define_currency_begin(p, In)
    \/ define_currency_exists_user(p)
    \/ define_currency_create(p, In)
    \/ define_currency_set_condition(p, In)
    \/ define_currency_set_currency_spec(p, In)
    \/ define_currency_write(p)

-----------------------------------------------------------------------------
(* from_hex_to_user, and what the transaction handlers share *)

\* from_hex_to_user(g, hex_id, table): the User, or None for abort(404)
from_hex_to_user(hex_id, table) == get_user(hex_id, table)

\* s_label as issue_to_user sets it when no label is given
s_label_joined_if_absent(label) ==
    IF IsNone(label) \/ The(label) = "" THEN LABEL_JOINED ELSE The(label)

\* s_label of transfer and swap: '' when the label is absent or empty
s_label_of(label) ==
    IF IsNone(label) \/ The(label) = "" THEN "" ELSE The(label)

\* the response of issue, transfer and swap
AmountBody(value, currency_spec) ==
    [amount |-> to_display(value, currency_spec.decimal),
     symbol |-> currency_spec.symbol]

-----------------------------------------------------------------------------
(* POST /issue/<hex_mint_id> *)

\* currency = from_hex_to_user(g, hex_mint_id, 'currency_table'), then the
\* checks of user_id and amount
issue_to_user_begin(p, In) ==
    /\ op[p] = "idle"
    /\ UNCHANGED <<tables, ledger>>
    /\ \E hex_mint_id \in In.hex_ids :
          LET currency == from_hex_to_user(hex_mint_id, currency_table)
              l == [currency |-> currency, hex_user_id |-> None,
                    amount |-> None, s_label |-> LABEL_JOINED, user |-> None,
                    currency_spec |-> None, value |-> None, tx |-> None]
          IN IF IsNone(currency)
             THEN BeginAbort(p, "issue_to_user", 404, l)
             ELSE \E hex_user_id \in Opt(In.hex_ids) :
                     IF IsNone(hex_user_id)
                     THEN BeginAbort(p, "issue_to_user", 400, l)
                     ELSE \E amount \in Opt(In.amounts) :
                             LET l2 == [l EXCEPT !.hex_user_id = hex_user_id,
                                                 !.amount = amount]
                             IN IF IsNone(amount)
                                THEN BeginAbort(p, "issue_to_user", 400, l2)
                                ELSE Begin(p, "issue_to_user", "get_user", l2)

\* user = from_hex_to_user(g, hex_user_id, 'user_table')
issue_to_user_get_user(p) ==
    /\ At(p, "issue_to_user", "get_user")
    /\ UNCHANGED <<tables, ledger>>
    /\ LET user == from_hex_to_user(The(locals[p].hex_user_id), user_table)
       IN IF IsNone(user)
          THEN Abort(p, 404, locals[p])
          ELSE Goto(p, "get_currency_spec", [locals[p] EXCEPT !.user = user])

\* currency_spec = g.mint.get_currency_spec()
\* value = int(float(amount) * (10 ** currency_spec.decimal))
issue_to_user_get_currency_spec(p, In) ==
    /\ At(p, "issue_to_user", "get_currency_spec")
    /\ UNCHANGED <<tables, ledger>>
    /\ LET l == locals[p]
           currency_spec == get_currency_spec(The(l.currency).user_id)
       IN \E failed \in In.fail :
             IF failed \/ IsNone(currency_spec)
             THEN Abort(p, 500, l)
             ELSE IF IsNone(float(The(l.amount)))
                  THEN Abort(p, 500,       \* ValueError
                             [l EXCEPT !.currency_spec = currency_spec])
                  ELSE Goto(p, "issue",
                            [l EXCEPT
                                !.currency_spec = currency_spec,
                                !.value = Some(to_units(The(l.amount),
                                                  The(currency_spec).decimal))])

\* tx = g.mint.issue(user.user_id, value, keypair=currency.keypair, label=label)
issue_to_user_issue(p, In) ==
    /\ At(p, "issue_to_user", "issue")
    /\ LedgerTx(p, In, "write_tx", LAMBDA tx : [locals[p] EXCEPT !.tx = tx])

\* issue_to_user logging the recipient's id, as swap_between_users does
IssueRowWithUserId(table, tx, currency, user, amount, s_label) ==
    write_tx(table, tx.transaction_id, get_timestamp_in_seconds(tx),
             currency.user_id, "", user.user_id, amount, s_label)

\* the row issue_to_user logs
IssueRow(table, tx, currency, user, amount, s_label) ==
    write_tx(table, tx.transaction_id, get_timestamp_in_seconds(tx),
             currency.user_id, "", user.name, amount, s_label)

\* issue_to_user writing back the log it saw when the request began, plus
\* its own row
issue_to_user_write_tx_stale(p) ==
    /\ At(p, "issue_to_user", "write_tx")
    /\ LET l == locals[p]
           tx == The(l.tx)
       IN /\ UNCHANGED <<user_table, currency_table, ledger>>
          /\ tx_table' = IssueRow(pre[p][3], tx, The(l.currency),
                                  The(l.user), The(l.amount), l.s_label)
          /\ Respond(p, 200,
                     Some(AmountBody(The(l.value), The(l.currency_spec))), l)

\* g.store.write_tx(...), then the response
issue_to_user_write_tx(p) ==
    /\ At(p, "issue_to_user", "write_tx")
    /\ LET l == locals[p]
           tx == The(l.tx)
       IN /\ UNCHANGED <<user_table, currency_table, ledger>>
          /\ IF PrimaryKeyFree(tx.transaction_id, tx_table, LAMBDA r : r.tx_id)
             THEN /\ tx_table' = IssueRow(tx_table, tx, The(l.currency),
                                          The(l.user), The(l.amount), l.s_label)
                  /\ Respond(p, 200,
                             Some(AmountBody(The(l.value), The(l.currency_spec))),
                             l)
             ELSE /\ UNCHANGED tx_table         \* IntegrityError
                  /\ Abort(p, 500, l)

issue_to_user(p, In) ==
    \/ issue_to_user_begin(p, In)
    \/ issue_to_user_get_user(p)
    \/ issue_to_user_get_currency_spec(p, In)
    \/ issue_to_user_issue(p, In)
    \/ issue_to_user_write_tx(p)

-----------------------------------------------------------------------------
(* POST /new-keypair/<hex_user_id> *)

\* keypair = bbclib.KeyPair(); keypair.generate(): a keypair that is not the
\* old one (nor any other in use)
generate(keypair_old) ==
    [public_key |-> keypair_old.public_key \o <<"new">>,
     private_key |-> keypair_old.private_key \o <<"new">>]

\* the number of times a keypair has been replaced
Rotations(keypair) == Len(keypair.public_key) - 2

\* update_user without its where clause
update_user_every_row(user, table) ==
    [i \in 1..Len(table) |->
        [table[i] EXCEPT !.public_key = user.keypair.public_key,
                         !.private_key = user.keypair.private_key]]

\* Store.update_user: update <table> set public_key=?, private_key=?
\* where user_id=?
update_user(user, table) ==
    [i \in 1..Len(table) |->
        IF table[i].user_id = user.user_id
        THEN [table[i] EXCEPT !.public_key = user.keypair.public_key,
                              !.private_key = user.keypair.private_key]
        ELSE table[i]]

\* user = from_hex_to_user(g, hex_user_id, 'user_table'); keypair_old;
\* keypair.generate()
replace_keypair_begin(p, In) ==
    /\ op[p] = "idle"
    /\ UNCHANGED <<tables, ledger>>
    /\ \E hex_user_id \in In.hex_ids :
          LET user == from_hex_to_user(hex_user_id, user_table)
              l == [hex_user_id |-> hex_user_id, user |-> user,
                    keypair_old |-> None, keypair |-> None]
          IN IF IsNone(user)
             THEN BeginAbort(p, "replace_keypair", 404, l)
             ELSE /\ Rotations(The(user).keypair) < In.max_rotations
                  /\ Begin(p, "replace_keypair", "update",
                           [l EXCEPT
                               !.keypair_old = Some(The(user).keypair),
                               !.keypair = Some(generate(The(user).keypair))])

\* replace_keypair storing the new keypair before the registry is asked
replace_keypair_update_after_store(p, In) ==
    /\ At(p, "replace_keypair", "update")
    /\ UNCHANGED <<currency_table, tx_table, ledger>>
    /\ LET l == locals[p]
           user == [The(l.user) EXCEPT !.keypair = The(l.keypair)]
       IN /\ user_table' = update_user(user, user_table)
          /\ \E failed \in In.fail :
                IF failed
                THEN Abort(p, 500, l)
                ELSE Goto(p, "update_user", [l EXCEPT !.user = Some(user)])

\* g.idPubkeyMap.update(user.user_id, public_keys_to_replace=[...],
\* keypair=keypair_old); user.keypair = keypair
replace_keypair_update(p, In) ==
    /\ At(p, "replace_keypair", "update")
    /\ UNCHANGED <<tables, ledger>>
    /\ LET l == locals[p]
       IN \E failed \in In.fail :
             IF failed
             THEN Abort(p, 500, l)
             ELSE Goto(p, "update_user",
                       [l EXCEPT !.user = Some([The(l.user) EXCEPT
                                                   !.keypair = The(l.keypair)])])

\* g.store.update_user(user, 'user_table'), then the response
replace_keypair_update_user(p) ==
    /\ At(p, "replace_keypair", "update_user")
    /\ UNCHANGED <<currency_table, tx_table, ledger>>
    /\ LET l == locals[p]
       IN /\ user_table' = update_user(The(l.user), user_table)
          /\ Respond(p, 200,
                     Some([old_pubkey |-> The(l.keypair_old).public_key,
                           new_pubkey |-> The(l.keypair).public_key]),
                     l)

replace_keypair(p, In) ==
    \/ replace_keypair_begin(p, In)
    \/ replace_keypair_update(p, In)
    \/ replace_keypair_update_user(p)

-----------------------------------------------------------------------------
(* POST /transfer/<hex_mint_id> *)

\* currency = from_hex_to_user(g, hex_mint_id, 'currency_table'), then the
\* label and the checks of from_user_id, to_user_id and amount
transfer_to_user_begin(p, In) ==
    /\ op[p] = "idle"
    /\ UNCHANGED <<tables, ledger>>
    /\ \E hex_mint_id \in In.hex_ids :
          LET currency == from_hex_to_user(hex_mint_id, currency_table)
              l == [currency |-> currency, hex_from_user_id |-> None,
                    hex_to_user_id |-> None, amount |-> None,
                    label |-> None, s_label |-> "",
                    from_user |-> None, to_user |-> None,
                    currency_spec |-> None, value |-> None, tx |-> None]
          IN IF IsNone(currency)
             THEN BeginAbort(p, "transfer_to_user", 404, l)
             ELSE \E label \in Opt(In.labels), hex_from_user_id \in Opt(In.hex_ids) :
                     LET l1 == [l EXCEPT !.label = label,
                                         !.s_label = s_label_of(label),
                                         !.hex_from_user_id = hex_from_user_id]
                     IN IF IsNone(hex_from_user_id)
                        THEN BeginAbort(p, "transfer_to_user", 400, l1)
                        ELSE \E hex_to_user_id \in Opt(In.hex_ids) :
                                LET l2 == [l1 EXCEPT
                                              !.hex_to_user_id = hex_to_user_id]
                                IN IF IsNone(hex_to_user_id)
                                   THEN BeginAbort(p, "transfer_to_user", 400, l2)
                                   ELSE \E amount \in Opt(In.amounts) :
                                           IF IsNone(amount)
                                           THEN BeginAbort(p, "transfer_to_user",
                                                           400, l2)
                                           ELSE Begin(p, "transfer_to_user",
                                                      "get_from_user",
                                                      [l2 EXCEPT !.amount = amount])

\* from_user = from_hex_to_user(g, hex_from_user_id, 'user_table')
transfer_to_user_get_from_user(p) ==
    /\ At(p, "transfer_to_user", "get_from_user")
    /\ UNCHANGED <<tables, ledger>>
    /\ LET user == from_hex_to_user(The(locals[p].hex_from_user_id), user_table)
       IN IF IsNone(user)
          THEN Abort(p, 404, locals[p])
          ELSE Goto(p, "get_to_user", [locals[p] EXCEPT !.from_user = user])

\* to_user = from_hex_to_user(g, hex_to_user_id, 'user_table')
transfer_to_user_get_to_user(p) ==
    /\ At(p, "transfer_to_user", "get_to_user")
    /\ UNCHANGED <<tables, ledger>>
    /\ LET user == from_hex_to_user(The(locals[p].hex_to_user_id), user_table)
       IN IF IsNone(user)
          THEN Abort(p, 404, locals[p])
          ELSE Goto(p, "get_currency_spec", [locals[p] EXCEPT !.to_user = user])

\* currency_spec = g.mint.get_currency_spec()
\* value = int(float(amount) * (10 ** currency_spec.decimal))
transfer_to_user_get_currency_spec(p, In) ==
    /\ At(p, "transfer_to_user", "get_currency_spec")
    /\ UNCHANGED <<tables, ledger>>
    /\ LET l == locals[p]
           currency_spec == get_currency_spec(The(l.currency).user_id)
       IN \E failed \in In.fail :
             IF failed \/ IsNone(currency_spec)
             THEN Abort(p, 500, l)
             ELSE IF IsNone(float(The(l.amount)))
                  THEN Abort(p, 500,       \* ValueError
                             [l EXCEPT !.currency_spec = currency_spec])
                  ELSE Goto(p, "transfer",
                            [l EXCEPT
                                !.currency_spec = currency_spec,
                                !.value = Some(to_units(The(l.amount),
                                                  The(currency_spec).decimal))])

\* tx = g.mint.transfer(from_user.user_id, to_user.user_id, value, ...)
transfer_to_user_transfer(p, In) ==
    /\ At(p, "transfer_to_user", "transfer")
    /\ LedgerTx(p, In, "write_tx", LAMBDA tx : [locals[p] EXCEPT !.tx = tx])

\* transfer_to_user logging the sender's id as the mint_id
TransferRowMintFromUser(table, tx, currency, from_user, to_user, amount, s_label) ==
    write_tx(table, tx.transaction_id, get_timestamp_in_seconds(tx),
             from_user.user_id, from_user.name, to_user.name, amount, s_label)

\* the row transfer_to_user logs
TransferRow(table, tx, currency, from_user, to_user, amount, s_label) ==
    write_tx(table, tx.transaction_id, get_timestamp_in_seconds(tx),
             currency.user_id, from_user.name, to_user.name, amount, s_label)

\* g.store.write_tx(...), then the response
transfer_to_user_write_tx(p) ==
    /\ At(p, "transfer_to_user", "write_tx")
    /\ LET l == locals[p]
           tx == The(l.tx)
       IN /\ UNCHANGED <<user_table, currency_table, ledger>>
          /\ IF PrimaryKeyFree(tx.transaction_id, tx_table, LAMBDA r : r.tx_id)
             THEN /\ tx_table' = TransferRow(tx_table, tx, The(l.currency),
                                             The(l.from_user), The(l.to_user),
                                             The(l.amount), l.s_label)
                  /\ Respond(p, 200,
                             Some(AmountBody(The(l.value), The(l.currency_spec))),
                             l)
             ELSE /\ UNCHANGED tx_table         \* IntegrityError
                  /\ Abort(p, 500, l)

transfer_to_user(p, In) ==
    \/ transfer_to_user_begin(p, In)
    \/ transfer_to_user_get_from_user(p)
    \/ transfer_to_user_get_to_user(p)
    \/ transfer_to_user_get_currency_spec(p, In)
    \/ transfer_to_user_transfer(p, In)
    \/ transfer_to_user_write_tx(p)

-----------------------------------------------------------------------------
(* POST /swap/<hex_mint_id>/<hex_counter_mint_id> *)

\* currency = from_hex_to_user(g, hex_mint_id, 'currency_table')
swap_between_users_begin(p, In) ==
    /\ op[p] = "idle"
    /\ UNCHANGED <<tables, ledger>>
    /\ \E hex_mint_id \in In.hex_ids :
          LET currency == from_hex_to_user(hex_mint_id, currency_table)
              l == [currency |-> currency, counter_currency |-> None,
                    hex_user_id |-> None, hex_counter_user_id |-> None,
                    amount |-> None, counter_amount |-> None, s_label |-> "",
                    user |-> None, counter_user |-> None,
                    currency_spec |-> None, counter_currency_spec |-> None,
                    value |-> None, counter_value |-> None, tx |-> None]
          IN IF IsNone(currency)
             THEN BeginAbort(p, "swap_between_users", 404, l)
             ELSE Begin(p, "swap_between_users", "get_counter_currency", l)

\* the checks of amount and counter_amount
SwapAmounts(p, In, l, amount) ==
    IF IsNone(amount)
    THEN Abort(p, 400, l)
    ELSE \E counter_amount \in Opt(In.amounts) :
            IF IsNone(counter_amount)
            THEN Abort(p, 400, [l EXCEPT !.amount = amount])
            ELSE Goto(p, "get_user", [l EXCEPT !.amount = amount,
                                              !.counter_amount = counter_amount])

\* counter_currency = from_hex_to_user(g, hex_counter_mint_id,
\* 'currency_table'), then the label and the checks of user_id,
\* counter_user_id, amount and counter_amount
swap_between_users_get_counter_currency(p, In) ==
    /\ At(p, "swap_between_users", "get_counter_currency")
    /\ UNCHANGED <<tables, ledger>>
    /\ \E hex_counter_mint_id \in In.hex_ids :
          LET counter_currency ==
                  from_hex_to_user(hex_counter_mint_id, currency_table)
          IN IF IsNone(counter_currency)
             THEN Abort(p, 404, locals[p])
             ELSE \E label \in Opt(In.labels), hex_user_id \in Opt(In.hex_ids) :
                     LET l1 == [locals[p] EXCEPT
                                   !.counter_currency = counter_currency,
                                   !.s_label = s_label_of(label),
                                   !.hex_user_id = hex_user_id]
                     IN IF IsNone(hex_user_id)
                        THEN Abort(p, 400, l1)
                        ELSE \E hex_counter_user_id \in Opt(In.hex_ids) :
                                LET l2 == [l1 EXCEPT !.hex_counter_user_id =
                                                         hex_counter_user_id]
                                IN IF IsNone(hex_counter_user_id)
                                   THEN Abort(p, 400, l2)
                                   ELSE \E amount \in Opt(In.amounts) :
                                           SwapAmounts(p, In, l2, amount)

\* user = from_hex_to_user(g, hex_user_id, 'user_table')
swap_between_users_get_user(p) ==
    /\ At(p, "swap_between_users", "get_user")
    /\ UNCHANGED <<tables, ledger>>
    /\ LET user == from_hex_to_user(The(locals[p].hex_user_id), user_table)
       IN IF IsNone(user)
          THEN Abort(p, 404, locals[p])
          ELSE Goto(p, "get_counter_user", [locals[p] EXCEPT !.user = user])

\* counter_user = from_hex_to_user(g, hex_counter_user_id, 'user_table')
swap_between_users_get_counter_user(p) ==
    /\ At(p, "swap_between_users", "get_counter_user")
    /\ UNCHANGED <<tables, ledger>>
    /\ LET user == from_hex_to_user(The(locals[p].hex_counter_user_id),
                                    user_table)
       IN IF IsNone(user)
          THEN Abort(p, 404, locals[p])
          ELSE Goto(p, "get_currency_spec",
                    [locals[p] EXCEPT !.counter_user = user])

\* currency_spec = g.mint.get_currency_spec()
swap_between_users_get_currency_spec(p, In) ==
    /\ At(p, "swap_between_users", "get_currency_spec")
    /\ UNCHANGED <<tables, ledger>>
    /\ LET l == locals[p]
           currency_spec == get_currency_spec(The(l.currency).user_id)
       IN \E failed \in In.fail :
             IF failed \/ IsNone(currency_spec)
             THEN Abort(p, 500, l)
             ELSE Goto(p, "get_counter_currency_spec",
                       [l EXCEPT !.currency_spec = currency_spec])

\* counter_currency_spec = counter_mint.get_currency_spec()
\* value = int(float(amount) * (10 ** currency_spec.decimal))
\* counter_value = int(float(counter_amount) * (10 ** counter_currency_spec.decimal))
swap_between_users_get_counter_currency_spec(p, In) ==
    /\ At(p, "swap_between_users", "get_counter_currency_spec")
    /\ UNCHANGED <<tables, ledger>>
    /\ LET l == locals[p]
           counter_currency_spec ==
               get_currency_spec(The(l.counter_currency).user_id)
       IN \E failed \in In.fail :
             IF failed \/ IsNone(counter_currency_spec)
             THEN Abort(p, 500, l)
             ELSE IF IsNone(float(The(l.amount)))
                     \/ IsNone(float(The(l.counter_amount)))
                  THEN Abort(p, 500,       \* ValueError
                             [l EXCEPT !.counter_currency_spec =
                                           counter_currency_spec])
                  ELSE Goto(p, "swap",
                            [l EXCEPT
                                !.counter_currency_spec = counter_currency_spec,
                                !.value = Some(to_units(The(l.amount),
                                                  The(l.currency_spec).decimal)),
                                !.counter_value =
                                    Some(to_units(The(l.counter_amount),
                                             The(counter_currency_spec).decimal))])

\* tx = g.mint.swap(counter_mint, user.user_id, counter_user.user_id, ...)
swap_between_users_swap(p, In) ==
    /\ At(p, "swap_between_users", "swap")
    /\ LedgerTx(p, In, "write_tx", LAMBDA tx : [locals[p] EXCEPT !.tx = tx])

\* counter_txid = bytearray(tx.transaction_id); counter_txid.extend(b'00')
\* (b'00' is the two bytes 48, 48)
counter_txid(transaction_id) == transaction_id \o <<48, 48>>

\* the row of the first leg: g.store.write_tx(tx.transaction_id,
\* get_timestamp_in_seconds(tx), currency.user_id, user.user_id,
\* counter_user.user_id, amount, s_label)
SwapRow(table, tx, currency, user, counter_user, amount, s_label) ==
    write_tx(table, tx.transaction_id, get_timestamp_in_seconds(tx),
             currency.user_id, user.user_id, counter_user.user_id, amount,
             s_label)

\* The first g.store.write_tx(...).  The handler then builds counter_txid and
\* evaluates bytes(counter_tx_id) for the second g.store.write_tx(...):
\* counter_tx_id is bound nowhere, so Python raises NameError before the
\* second insert is made, and the request ends with an uncaught exception.
swap_between_users_write_tx(p) ==
    /\ At(p, "swap_between_users", "write_tx")
    /\ LET l == locals[p]
           tx == The(l.tx)
       IN /\ UNCHANGED <<user_table, currency_table, ledger>>
          /\ IF PrimaryKeyFree(tx.transaction_id, tx_table, LAMBDA r : r.tx_id)
             THEN /\ tx_table' = SwapRow(tx_table, tx, The(l.currency),
                                         The(l.user), The(l.counter_user),
                                         The(l.amount), l.s_label)
                  /\ Abort(p, 500, l)             \* NameError
             ELSE /\ UNCHANGED tx_table           \* IntegrityError
                  /\ Abort(p, 500, l)

swap_between_users(p, In) ==
    \/ swap_between_users_begin(p, In)
    \/ swap_between_users_get_counter_currency(p, In)
    \/ swap_between_users_get_user(p)
    \/ swap_between_users_get_counter_user(p)
    \/ swap_between_users_get_currency_spec(p, In)
    \/ swap_between_users_get_counter_currency_spec(p, In)
    \/ swap_between_users_swap(p, In)
    \/ swap_between_users_write_tx(p)

-----------------------------------------------------------------------------
(* GET /transactions/<hex_mint_id>: Store.get_tx_list *)

RECURSIVE Reverse(_)
Reverse(rows) ==
    IF rows = <<>> THEN <<>> ELSE Reverse(Tail(rows)) \o <<Head(rows)>>

Min(a, b) == IF a < b THEN a ELSE b

\* the where clause without mint_id=?
TxWhereAnyMint(table, mint_id, basetime, name) ==
    IF ~IsNone(name)
    THEN Where(table, LAMBDA r : /\ r.timestamp >= basetime
                                 /\ (r.from_name = The(name)
                                     \/ r.to_name = The(name)))
    ELSE Where(table, LAMBDA r : r.timestamp >= basetime)

\* where mint_id=? and timestamp>=? [and (from_name=? or to_name=?)]
TxWhere(table, mint_id, basetime, name) ==
    IF ~IsNone(name)
    THEN Where(table, LAMBDA r : /\ r.mint_id = mint_id
                                 /\ r.timestamp >= basetime
                                 /\ (r.from_name = The(name)
                                     \/ r.to_name = The(name)))
    ELSE Where(table, LAMBDA r : /\ r.mint_id = mint_id
                                 /\ r.timestamp >= basetime)

\* ' limit {0}, {1}'.format(offset, count): skip offset rows, keep count
Limit(rows, offset, count) ==
    SubSeq(rows, offset + 1, Min(Len(rows), offset + count))

\* the select with order by rowid, without desc
select_rows_ascending(table, mint_id, basetime, name, offset, count) ==
    LET ordered == TxWhere(table, mint_id, basetime, name)
    IN IF ~IsNone(count) THEN Limit(ordered, offset, The(count)) ELSE ordered

\* s_limit is ' limit offset, count' if count is not None, else ''
\* select * from tx_table where ... order by rowid desc + s_limit
select_rows(table, mint_id, basetime, name, offset, count) ==
    LET ordered == Reverse(TxWhere(table, mint_id, basetime, name))
    IN IF ~IsNone(count) THEN Limit(ordered, offset, The(count)) ELSE ordered

\* select count(*) from tx_table where ...
select_count(table, mint_id, basetime, name) ==
    Len(TxWhere(table, mint_id, basetime, name))

\* the dictionaries built from the rows
tx_dics(rows) ==
    [i \in 1..Len(rows) |->
        [timestamp |-> rows[i].timestamp, from_name |-> rows[i].from_name,
         to_name |-> rows[i].to_name, amount |-> rows[i].amount,
         label |-> rows[i].label]]

\* what get_tx_list returns
tx_list(offset, number, rows, symbol) ==
    [count_before |-> offset,
     count_after |-> number - offset - Len(rows),
     transactions |-> tx_dics(rows),
     symbol |-> symbol]

\* basetime and offset default to 0
OrZero(o) == IF IsNone(o) THEN 0 ELSE The(o)

\* mint = token_lib.BBcMint(...); in get_tx_list: basetime, offset, s_limit,
\* symbol = mint.get_currency_spec().symbol
show_transactions_begin(p, In) ==
    /\ op[p] = "idle"
    /\ UNCHANGED <<tables, ledger>>
    /\ \E hex_mint_id \in In.hex_ids, name \in Opt(In.query_names),
          count \in Opt(In.counts), offset \in Opt(In.offsets),
          basetime \in Opt(In.basetimes), failed \in In.fail :
          LET currency_spec == get_currency_spec(hex_mint_id)
              l == [mint_id |-> hex_mint_id, name |-> name, count |-> count,
                    offset |-> OrZero(offset), basetime |-> OrZero(basetime),
                    symbol |-> None, rows |-> <<>>]
          IN IF failed \/ IsNone(currency_spec)
             THEN BeginAbort(p, "show_transactions", 500, l)
             ELSE Begin(p, "show_transactions", "select_rows",
                        [l EXCEPT !.symbol = Some(The(currency_spec).symbol)])

\* rows = self.db.exec_sql(..., 'select * from tx_table ...')
show_transactions_select_rows(p) ==
    /\ At(p, "show_transactions", "select_rows")
    /\ UNCHANGED <<tables, ledger>>
    /\ LET l == locals[p]
       IN Goto(p, "select_count",
               [l EXCEPT !.rows = select_rows(tx_table, l.mint_id, l.basetime,
                                              l.name, l.offset, l.count)])

\* counts = self.db.exec_sql(..., 'select count(*) from tx_table ...'), then
\* the result
show_transactions_select_count(p) ==
    /\ At(p, "show_transactions", "select_count")
    /\ UNCHANGED <<tables, ledger>>
    /\ LET l == locals[p]
           number == select_count(tx_table, l.mint_id, l.basetime, l.name)
       IN Respond(p, 200, Some(tx_list(l.offset, number, l.rows, The(l.symbol))),
                  l)

show_transactions(p, In) ==
    \/ show_transactions_begin(p, In)
    \/ show_transactions_select_rows(p)
    \/ show_transactions_select_count(p)

-----------------------------------------------------------------------------
(* Specifications *)

HexIds(n) == {IdOf(i) : i \in 1..(n + 1)}

Amount1050 == <<"1", "0", ".", "5", "0">>

\* Requests served one at a time: users, a currency, issues and history
\* queries; the name U is asked for as a user and as a currency.
Inputs ==
    [user_names |-> {"U", "V"}, currency_names |-> {"A", "U"},
     symbols |-> {"S"}, decimals |-> {0, 2},
     content_types |-> {"application/json", "text/plain"},
     hex_ids |-> HexIds(MaxIds),
     amounts |-> {Amount1050, <<"x">>},
     labels |-> {"", "L"},
     timestamps |-> {1, 2},
     query_names |-> {"U"}, counts |-> {1}, offsets |-> {1, 2},
     basetimes |-> {2},
     fail |-> {FALSE, TRUE}, max_ids |-> MaxIds, max_tx |-> MaxTx]

Next ==
    \/ define_user(1, Inputs)
    \/ define_currency(1, Inputs)
    \/ issue_to_user(1, Inputs)
    \/ show_transactions(1, Inputs)
    \/ after_request(1)

Spec == Init /\ [][Next]_vars

\* Requests served one at a time: users U and V, currencies A and B, swaps
\* (without a label).
SwapInputs ==
    [user_names |-> {"U", "V"}, currency_names |-> {"A", "B"},
     symbols |-> {"S"}, decimals |-> {0, 2},
     content_types |-> {"application/json"},
     hex_ids |-> HexIds(MaxSwapIds),
     amounts |-> {Amount1050, <<"3">>},
     labels |-> {},
     timestamps |-> {1},
     fail |-> {FALSE}, max_ids |-> MaxSwapIds, max_tx |-> MaxSwapTx]

NextSwap ==
    \/ define_user(1, SwapInputs)
    \/ define_currency(1, SwapInputs)
    \/ swap_between_users(1, SwapInputs)
    \/ after_request(1)

SpecSwap == Init /\ [][NextSwap]_vars

\* Two define requests at a time, both asking for the name X.
RaceInputs ==
    [user_names |-> {"X"}, currency_names |-> {"X"},
     symbols |-> {"S"}, decimals |-> {2},
     content_types |-> {"application/json"},
     fail |-> {FALSE}, max_ids |-> MaxRaceIds]

NextRace ==
    \E p \in Procs :
        \/ define_user(p, RaceInputs)
        \/ define_currency(p, RaceInputs)
        \/ after_request(p)

SpecRace == Init /\ [][NextRace]_vars

\* Slot 1 defines a user and a currency and issues; slot 2 asks for the
\* history at the same time.
QueryRaceInputs ==
    [user_names |-> {"U"}, currency_names |-> {"A"},
     symbols |-> {"S"}, decimals |-> {2},
     content_types |-> {"application/json"},
     hex_ids |-> HexIds(MaxRaceIds),
     amounts |-> {Amount1050},
     timestamps |-> {1},
     query_names |-> {"U"}, counts |-> {1}, offsets |-> {1},
     basetimes |-> {},
     fail |-> {FALSE}, max_ids |-> MaxRaceIds, max_tx |-> MaxRaceTx]

NextQueryRace ==
    \/ define_user(1, QueryRaceInputs)
    \/ define_currency(1, QueryRaceInputs)
    \/ issue_to_user(1, QueryRaceInputs)
    \/ after_request(1)
    \/ show_transactions(2, QueryRaceInputs)
    \/ after_request(2)

SpecQueryRace == Init /\ [][NextQueryRace]_vars

\* Requests served one at a time: users U and V, a currency A, issues and
\* transfers (label absent, empty or L); the registry and the ledger do not
\* fail while an identity is defined.
TransferInputs ==
    [user_names |-> {"U", "V"}, currency_names |-> {"A"},
     symbols |-> {"S"}, decimals |-> {2},
     content_types |-> {"application/json"},
     hex_ids |-> HexIds(MaxTransferIds),
     amounts |-> {Amount1050},
     labels |-> {"", "L"},
     timestamps |-> {1},
     fail |-> {FALSE, TRUE}, max_ids |-> MaxTransferIds,
     max_tx |-> MaxTransferTx]

NextTransfer ==
    \/ define_user(1, [TransferInputs EXCEPT !.fail = {FALSE}])
    \/ define_currency(1, [TransferInputs EXCEPT !.fail = {FALSE}])
    \/ issue_to_user(1, TransferInputs)
    \/ transfer_to_user(1, TransferInputs)
    \/ after_request(1)

SpecTransfer == Init /\ [][NextTransfer]_vars

\* Requests served one at a time: users U and V, a currency A, issues and
\* keypair replacements.
RotateInputs ==
    [user_names |-> {"U", "V"}, currency_names |-> {"A"},
     symbols |-> {"S"}, decimals |-> {2},
     content_types |-> {"application/json"},
     hex_ids |-> HexIds(MaxRotateIds),
     amounts |-> {Amount1050},
     timestamps |-> {1},
     fail |-> {FALSE, TRUE}, max_ids |-> MaxRotateIds,
     max_tx |-> MaxRotateTx, max_rotations |-> MaxRotations]

NextRotate ==
    \/ define_user(1, RotateInputs)
    \/ define_currency(1, RotateInputs)
    \/ issue_to_user(1, RotateInputs)
    \/ replace_keypair(1, RotateInputs)
    \/ after_request(1)

SpecRotate == Init /\ [][NextRotate]_vars

AmountMinus3 == <<"-", "3">>

\* Requests served one at a time: users U and V, a currency A of decimal 0
\* or 2, issues and transfers of "10.50", "-3" and "x".
AmountInputs ==
    [user_names |-> {"U", "V"}, currency_names |-> {"A"},
     symbols |-> {"S"}, decimals |-> {0, 2},
     content_types |-> {"application/json"},
     hex_ids |-> HexIds(MaxAmountIds),
     amounts |-> {Amount1050, AmountMinus3, <<"x">>},
     labels |-> {},
     timestamps |-> {1},
     fail |-> {FALSE, TRUE}, max_ids |-> MaxAmountIds, max_tx |-> MaxAmountTx]

NextAmount ==
    \/ define_user(1, AmountInputs)
    \/ define_currency(1, AmountInputs)
    \/ issue_to_user(1, AmountInputs)
    \/ transfer_to_user(1, AmountInputs)
    \/ after_request(1)

SpecAmount == Init /\ [][NextAmount]_vars
\* Two requests at a time, once users U, V and W and currencies A and B are
\* defined: slot 1 issues in currency B (or to a currency, or in a user: not
\* found), slot 2 transfers meanwhile in a currency and between users among
\* the first three identities.  The ledger does not fail.
DisjointInputs ==
    [hex_ids |-> {IdOf(4), IdOf(5)},
     amounts |-> {Amount1050},
     labels |-> {},
     timestamps |-> {1},
     fail |-> {FALSE},
     max_tx |-> MaxDisjointTx]

DisjointTransferInputs ==
    [DisjointInputs EXCEPT !.hex_ids = {IdOf(1), IdOf(2), IdOf(3)}]

\* the currency spec define_currency registers for its n-th identity
DefinedSpec(n) == [mint_id |-> IdOf(n), symbol |-> "S", decimal |-> 2]

\* The state after the requests that define user U, user V, currency A,
\* user W and currency B, in this order, have been served.
InitDisjoint ==
    /\ user_table = write_user(User(IdOf(4), "W", KeyPair(4)),
                       write_user(User(IdOf(2), "V", KeyPair(2)),
                         write_user(User(IdOf(1), "U", KeyPair(1)), <<>>)))
    /\ currency_table = write_user(User(IdOf(5), "B", KeyPair(5)),
                           write_user(User(IdOf(3), "A", KeyPair(3)), <<>>))
    /\ tx_table = <<>>
    /\ next_id = 5
    /\ next_tx = 0
    /\ conditions = {IdOf(3), IdOf(5)}
    /\ specs = {DefinedSpec(3), DefinedSpec(5)}
    /\ op = [p \in Procs |-> "idle"]
    /\ pc = [p \in Procs |-> "idle"]
    /\ locals = [p \in Procs |-> NoLocals]
    /\ response = [p \in Procs |-> NoResponse]
    /\ pre = [p \in Procs |-> <<>>]

NextDisjoint ==
    \/ issue_to_user(1, DisjointInputs)
    \/ after_request(1)
    \/ transfer_to_user(2, DisjointTransferInputs)
    \/ after_request(2)

SpecDisjoint == InitDisjoint /\ [][NextDisjoint]_vars

\* Requests served one at a time, every handler that writes: users U and V,
\* a currency A, issues, transfers, swaps (of A for A) and replacements of
\* keypairs, on the identities handed out; the registry and the ledger may
\* fail at every call but the creation of a user's identity.
LedgerInputs ==
    [user_names |-> {"U", "V"}, currency_names |-> {"A"},
     symbols |-> {"S"}, decimals |-> {2},
     content_types |-> {"application/json"},
     hex_ids |-> {IdOf(i) : i \in 1..MaxLedgerIds},
     amounts |-> {Amount1050},
     labels |-> {},
     timestamps |-> {1},
     fail |-> {FALSE, TRUE}, max_ids |-> MaxLedgerIds,
     max_tx |-> MaxLedgerTx, max_rotations |-> MaxLedgerRotations]

NextLedger ==
    \/ define_user(1, [LedgerInputs EXCEPT !.fail = {FALSE}])
    \/ define_currency(1, LedgerInputs)
    \/ issue_to_user(1, LedgerInputs)
    \/ transfer_to_user(1, LedgerInputs)
    \/ swap_between_users(1, LedgerInputs)
    \/ replace_keypair(1, LedgerInputs)
    \/ after_request(1)

SpecLedger == Init /\ [][NextLedger]_vars

\* Requests served one at a time, every handler that writes: users U and V,
\* currencies A and U (the name U is asked for as a user and as a currency),
\* with a content type that is not JSON too, issues, transfers, swaps and
\* replacements of keypairs, on identities that exist or not.  The registry
\* and the ledger do not fail.
AbortInputs ==
    [user_names |-> {"U", "V"}, currency_names |-> {"A", "U"},
     symbols |-> {"S"}, decimals |-> {2},
     content_types |-> {"application/json", "text/plain"},
     hex_ids |-> HexIds(MaxAbortIds),
     amounts |-> {Amount1050},
     labels |-> {},
     timestamps |-> {1},
     fail |-> {FALSE}, max_ids |-> MaxAbortIds,
     max_tx |-> MaxAbortTx, max_rotations |-> MaxAbortRotations]

NextAbort ==
    \/ define_user(1, AbortInputs)
    \/ define_currency(1, AbortInputs)
    \/ issue_to_user(1, AbortInputs)
    \/ transfer_to_user(1, AbortInputs)
    \/ swap_between_users(1, AbortInputs)
    \/ replace_keypair(1, AbortInputs)
    \/ after_request(1)

SpecAbort == Init /\ [][NextAbort]_vars


-----------------------------------------------------------------------------
(* Properties *)

Done(p, o) == op[p] = o /\ pc[p] = "done"

\* the names in a table
NamesIn(table) == {table[i].name : i \in 1..Len(table)}

\* a define request that passed the checks of its parameters
WellFormedDefine(p) ==
    \/ /\ Done(p, "define_user")
       /\ ~IsNone(locals[p].name)
    \/ /\ Done(p, "define_currency")
       /\ locals[p].content_type = "application/json"
       /\ ~IsNone(locals[p].name)
       /\ ~IsNone(locals[p].symbol)

\* C3: with requests served one at a time, a define-user or define-currency
\* request whose name was already in the user table or in the currency table
\* when it began ends with 409, and the three tables are as they were when
\* it began.
C3_ConflictRejected ==
    \A p \in Procs :
        (/\ WellFormedDefine(p)
         /\ The(locals[p].name) \in NamesIn(pre[p][1]) \cup NamesIn(pre[p][2]))
        => /\ response[p].code = 409
           /\ tables = pre[p]

\* C3 witness: a define-user request has ended with 409 for a name held by a
\* currency, and a user of another name exists.
C3_Witness ==
    /\ Done(1, "define_user")
    /\ response[1].code = 409
    /\ ~IsNone(locals[1].name)
    /\ The(locals[1].name) \in NamesIn(currency_table)
    /\ The(locals[1].name) \notin NamesIn(user_table)
    /\ user_table # <<>>

\* the entry the history of currency c shows for row r
DicOf(r) ==
    [timestamp |-> r.timestamp, from_name |-> r.from_name,
     to_name |-> r.to_name, amount |-> r.amount, label |-> r.label]

\* C4: when an issue of amount string s in currency c to user u has
\* succeeded, the log is the log of before plus one entry, with mint_id = c,
\* from_name = "", to_name = u's name in the user table and amount = s; and
\* if c had no entry before, the unfiltered history of c is that one entry.
C4_IssueLogsOneEntry ==
    \A p \in Procs :
        (Done(p, "issue_to_user") /\ response[p].code = 200) =>
            LET l == locals[p]
                c == The(l.currency).user_id
                u == The(get_user(The(l.hex_user_id), user_table))
                r == tx_table[Len(tx_table)]
            IN /\ Len(tx_table) = Len(pre[p][3]) + 1
               /\ SubSeq(tx_table, 1, Len(tx_table) - 1) = pre[p][3]
               /\ r.mint_id = c
               /\ r.from_name = ""
               /\ r.to_name = u.name
               /\ r.amount = The(l.amount)
               /\ r.tx_id = The(l.tx).transaction_id
               /\ (TxWhere(pre[p][3], c, 0, None) = <<>> =>
                      tx_dics(select_rows(tx_table, c, 0, None, 0, None))
                          = <<[timestamp |-> The(l.tx).timestamp,
                               from_name |-> "", to_name |-> u.name,
                               amount |-> The(l.amount),
                               label |-> LABEL_JOINED]>>)

\* C4 witness: an issue of "10.50" in a currency of decimal 2 has succeeded
\* and is the only entry of the log.
C4_Witness ==
    /\ Done(1, "issue_to_user")
    /\ response[1].code = 200
    /\ locals[1].amount = Some(Amount1050)
    /\ The(locals[1].currency_spec).decimal = 2
    /\ Len(tx_table) = 1

\* the newest-first sequence of the entries a history request matches
Matching(l) == Reverse(TxWhere(tx_table, l.mint_id, l.basetime, l.name))

\* C6: the transactions of a history answer are the entries at positions
\* offset .. offset+count-1 of the newest-first matching sequence, and those
\* at offset .. N-1 when no count is given.
C6_PageIsOffsetWindow ==
    \A p \in Procs :
        (Done(p, "show_transactions") /\ response[p].code = 200) =>
            LET l == locals[p]
                m == Matching(l)
                last == IF IsNone(l.count) THEN Len(m)
                        ELSE Min(Len(m), l.offset + The(l.count))
            IN The(response[p].body).transactions
                   = tx_dics(SubSeq(m, l.offset + 1, last))

\* the position in the newest-first matching sequence m of the row r
PositionIn(m, r) == CHOOSE i \in 1..Len(m) : m[i].tx_id = r.tx_id

\* C7: count_after of a history answer is never negative; when the answer
\* holds transactions, count_after is the number of matching entries older
\* than the last one returned and count_before the number of matching
\* entries newer than the first one returned.
C7_CountsAreRemaining ==
    \A p \in Procs :
        (Done(p, "show_transactions") /\ response[p].code = 200) =>
            LET l == locals[p]
                m == Matching(l)
                body == The(response[p].body)
            IN /\ body.count_after >= 0
               /\ l.rows # <<>> =>
                     /\ body.count_after
                            = Len(m) - PositionIn(m, l.rows[Len(l.rows)])
                     /\ body.count_before = PositionIn(m, l.rows[1]) - 1

\* a swap request between two currencies and two users that the ledger
\* accepted and whose handler has ended
SwapEnded(p) ==
    /\ Done(p, "swap_between_users")
    /\ ~IsNone(locals[p].tx)
    /\ The(locals[p].currency).user_id # The(locals[p].counter_currency).user_id
    /\ The(locals[p].user).user_id # The(locals[p].counter_user).user_id

\* C1: when a swap between currency A and currency B that the ledger
\* accepted has ended, the log is the log of before plus two entries: one
\* with mint_id = A and the first leg's amount string, one with mint_id = B
\* and the counter leg's amount string, both with the same timestamp.
C1_SwapLogsTwoEntries ==
    \A p \in Procs :
        SwapEnded(p) =>
            LET l == locals[p]
                n == Len(tx_table)
            IN /\ n = Len(pre[p][3]) + 2
               /\ SubSeq(tx_table, 1, n - 2) = pre[p][3]
               /\ tx_table[n - 1].mint_id = The(l.currency).user_id
               /\ tx_table[n - 1].amount = The(l.amount)
               /\ tx_table[n].mint_id = The(l.counter_currency).user_id
               /\ tx_table[n].amount = The(l.counter_amount)
               /\ tx_table[n - 1].timestamp = tx_table[n].timestamp

\* C5: when a swap between user u (currency A) and user v (currency B) that
\* the ledger accepted has ended, the log holds the entry of the A leg with
\* from_name = u's name and to_name = v's name and the entry of the B leg
\* with from_name = v's name and to_name = u's name, and the history of A
\* filtered by u's name holds the A leg.
C5_SwapLegsCarryNames ==
    \A p \in Procs :
        SwapEnded(p) =>
            LET l == locals[p]
                t == The(l.tx).transaction_id
                a == The(l.currency).user_id
                b == The(l.counter_currency).user_id
                u == The(l.user).name
                v == The(l.counter_user).name
            IN /\ \E i \in 1..Len(tx_table) :
                     /\ tx_table[i].tx_id = t
                     /\ tx_table[i].mint_id = a
                     /\ tx_table[i].from_name = u
                     /\ tx_table[i].to_name = v
               /\ \E i \in 1..Len(tx_table) :
                     /\ tx_table[i].tx_id = counter_txid(t)
                     /\ tx_table[i].mint_id = b
                     /\ tx_table[i].from_name = v
                     /\ tx_table[i].to_name = u
               /\ \E i \in 1..Len(TxWhere(tx_table, a, 0, Some(u))) :
                     TxWhere(tx_table, a, 0, Some(u))[i].tx_id = t

\* the transaction ids in the log
TxIds == {tx_table[i].tx_id : i \in 1..Len(tx_table)}

\* C9: in every state (every entry being a swap leg, as under SpecSwap) the
\* entry of a swap's first leg is in the log exactly if the entry of its
\* second leg is.
C9_SwapLegsTogether ==
    \A n \in 1..MaxSwapTx :
        TxIdOf(n) \in TxIds <=> counter_txid(TxIdOf(n)) \in TxIds

\* C10: in every state the entries of the log have pairwise distinct tx_id
\* values, and when a swap that the ledger accepted has ended the log holds
\* its second entry under the transaction id with the suffix appended.
C10_TxIdsDistinct ==
    /\ \A i, j \in 1..Len(tx_table) :
          i # j => tx_table[i].tx_id # tx_table[j].tx_id
    /\ \A p \in Procs :
          SwapEnded(p) =>
              /\ The(locals[p].tx).transaction_id \in TxIds
              /\ counter_txid(The(locals[p].tx).transaction_id) \in TxIds

\* C2: in every state no name is held by two rows of the user table and the
\* currency table taken together.
C2_NamesUnique ==
    LET all == user_table \o currency_table
    IN \A i, j \in 1..Len(all) : i # j => all[i].name # all[j].name

\* C8: a history answer agrees with one state of the log: there is a state
\* the log has been in (a prefix of the log, which only grows) from which the
\* returned transactions were read and whose number of matching entries is
\* count_before + the number of returned transactions + count_after.
C8_OneSnapshot ==
    \A p \in Procs :
        (Done(p, "show_transactions") /\ response[p].code = 200) =>
            LET l == locals[p]
                body == The(response[p].body)
            IN \E k \in 0..Len(tx_table) :
                  LET log == SubSeq(tx_table, 1, k)
                  IN /\ l.rows = select_rows(log, l.mint_id, l.basetime,
                                             l.name, l.offset, l.count)
                     /\ body.count_before + Len(body.transactions)
                            + body.count_after
                        = select_count(log, l.mint_id, l.basetime, l.name)

\* a history request that was answered
Answered(p) == Done(p, "show_transactions") /\ response[p].code = 200

\* the position in the log of the row r
LogPosition(r) == CHOOSE k \in 1..Len(tx_table) : tx_table[k].tx_id = r.tx_id

\* C11: the transactions of a history answer are in reverse insertion order:
\* of any two returned entries the one appended to the log later comes
\* first, whatever their timestamps.
C11_NewestFirst ==
    \A p \in Procs :
        Answered(p) =>
            LET rows == locals[p].rows
            IN /\ The(response[p].body).transactions = tx_dics(rows)
               /\ \A i, j \in 1..Len(rows) :
                     i < j => LogPosition(rows[i]) > LogPosition(rows[j])

\* C11 witness: a history answer holds two entries, and the one appended
\* later, which comes first, has the smaller timestamp.
C11_Witness ==
    /\ Answered(1)
    /\ Len(locals[1].rows) = 2
    /\ Len(The(response[1].body).transactions) = 2
    /\ The(response[1].body).transactions[1].timestamp
           < The(response[1].body).transactions[2].timestamp

\* the row r is of the currency of the history request l, not older than
\* its base time and, if it names a counterparty, from or to that name
Matches(r, l) ==
    /\ r.mint_id = l.mint_id
    /\ r.timestamp >= l.basetime
    /\ (IsNone(l.name) \/ r.from_name = The(l.name) \/ r.to_name = The(l.name))

\* C12: with requests served one at a time, every returned entry of a
\* history answer is a log entry of the queried currency, not older than the
\* base time (0 when absent) and, when a name is given, from or to that name;
\* the number counted is the number of such log entries; and without a count
\* the returned entries are exactly those.
C12_FilterExact ==
    \A p \in Procs :
        Answered(p) =>
            LET l == locals[p]
                body == The(response[p].body)
                matching == {k \in 1..Len(tx_table) : Matches(tx_table[k], l)}
            IN /\ \A i \in 1..Len(l.rows) :
                     /\ Matches(l.rows[i], l)
                     /\ \E k \in matching : tx_table[k] = l.rows[i]
               /\ body.count_before + Len(body.transactions) + body.count_after
                      = Cardinality(matching)
               /\ IsNone(l.count) =>
                      {l.rows[i].tx_id : i \in 1..Len(l.rows)}
                          = {tx_table[k].tx_id : k \in matching}

\* C12 witness: a history answer returns an entry while the log also holds
\* an entry of another currency.
C12_Witness ==
    /\ Answered(1)
    /\ locals[1].rows # <<>>
    /\ \E k \in 1..Len(tx_table) : tx_table[k].mint_id # locals[1].mint_id

\* C13: the log is append-only: every step leaves the entries of the log
\* in place, with their fields and in their order, and only adds entries
\* after them.
C13_AppendOnly ==
    [][/\ Len(tx_table') >= Len(tx_table)
       /\ SubSeq(tx_table', 1, Len(tx_table)) = tx_table]_vars

\* C13 witness: the log holds the entry of an issue and, after it, the entry
\* of a transfer.
C13_Witness ==
    /\ Len(tx_table) = 2
    /\ tx_table[1].from_name = ""
    /\ tx_table[2].from_name # ""

\* C14: in every state the mint_id of every log entry is the id of a row of
\* the currency table.
C14_MintIsCurrency ==
    \A k \in 1..Len(tx_table) :
        \E i \in 1..Len(currency_table) :
            currency_table[i].user_id = tx_table[k].mint_id

\* C14 witness: the log holds two entries, the second one of a transfer
\* between two users.
C14_Witness ==
    /\ Len(tx_table) = 2
    /\ Len(user_table) = 2
    /\ tx_table[2].from_name \in NamesIn(user_table)
    /\ tx_table[2].to_name \in NamesIn(user_table)
    /\ tx_table[2].from_name # tx_table[2].to_name

\* C15: when a keypair replacement of user u has succeeded, the user table
\* is the one of before with the public_key and private_key of u's row
\* replaced by a new pair and nothing else changed, the currency table and
\* the log are as before, and u is still found by id and by name; a
\* replacement for an id that is not in the user table ends with 404 and
\* leaves the three tables as they were.
C15_RotateFrame ==
    \A p \in Procs :
        Done(p, "replace_keypair") =>
            LET l == locals[p]
                before == pre[p][1]
            IN /\ response[p].code = 200 =>
                     LET u == The(get_user(l.hex_user_id, before))
                     IN /\ Len(user_table) = Len(before)
                        /\ \A i \in 1..Len(before) :
                              /\ user_table[i].user_id = before[i].user_id
                              /\ user_table[i].name = before[i].name
                              /\ before[i].user_id # u.user_id =>
                                     user_table[i] = before[i]
                              /\ before[i].user_id = u.user_id =>
                                     /\ user_table[i].public_key
                                            = The(l.keypair).public_key
                                     /\ user_table[i].private_key
                                            = The(l.keypair).private_key
                                     /\ user_table[i].public_key
                                            # before[i].public_key
                                     /\ user_table[i].private_key
                                            # before[i].private_key
                        /\ currency_table = pre[p][2]
                        /\ tx_table = pre[p][3]
                        /\ ~IsNone(get_user(u.user_id, user_table))
                        /\ The(get_user(u.user_id, user_table)).name = u.name
                        /\ ~IsNone(read_user(u.name, user_table))
                        /\ The(read_user(u.name, user_table)).user_id = u.user_id
               /\ IsNone(get_user(l.hex_user_id, before)) =>
                     /\ response[p].code = 404
                     /\ tables = pre[p]

\* C15 witness: a keypair replacement has succeeded with two users in the
\* user table and an entry in the log.
C15_Witness ==
    /\ Done(1, "replace_keypair")
    /\ response[1].code = 200
    /\ Len(user_table) = 2
    /\ tx_table # <<>>

\* C19: when a transfer has succeeded, the log is the log of before plus one
\* entry, with the currency's id, from_name = the sender's name, to_name =
\* the recipient's name and the amount string of the request; its label is
\* "" when the request's label is absent or empty and the request's label
\* otherwise.
C19_TransferLogsOneEntry ==
    \A p \in Procs :
        (Done(p, "transfer_to_user") /\ response[p].code = 200) =>
            LET l == locals[p]
                sender == The(get_user(The(l.hex_from_user_id), user_table))
                recipient == The(get_user(The(l.hex_to_user_id), user_table))
                r == tx_table[Len(tx_table)]
            IN /\ Len(tx_table) = Len(pre[p][3]) + 1
               /\ SubSeq(tx_table, 1, Len(tx_table) - 1) = pre[p][3]
               /\ r.mint_id = The(l.currency).user_id
               /\ r.tx_id = The(l.tx).transaction_id
               /\ r.from_name = sender.name
               /\ r.to_name = recipient.name
               /\ r.amount = The(l.amount)
               /\ (IsNone(l.label) \/ l.label = Some("")) => r.label = ""
               /\ (~IsNone(l.label) /\ l.label # Some("")) => r.label = The(l.label)

\* C19 witness: a transfer of "10.50" with the label L between two users
\* has succeeded, after one with no label.
C19_Witness ==
    /\ Done(1, "transfer_to_user")
    /\ response[1].code = 200
    /\ locals[1].label = Some("L")
    /\ locals[1].hex_from_user_id # locals[1].hex_to_user_id
    /\ Len(tx_table) = 2
    /\ tx_table[1].from_name # ""
    /\ tx_table[1].label = ""

\* an issue or transfer request has ended
DoneIssueOrTransfer(p) == Done(p, "issue_to_user") \/ Done(p, "transfer_to_user")

\* the request gave an amount that is not numeric
InvalidAmount(p) ==
    /\ ~IsNone(locals[p].amount)
    /\ IsNone(float(The(locals[p].amount)))

\* the first call of the request to an external collaborator has returned:
\* the currency spec has been read, or the identity has been created
ExternalReturned(p) ==
    \/ DoneIssueOrTransfer(p) /\ ~IsNone(locals[p].currency_spec)
    \/ Done(p, "define_user") /\ ~IsNone(locals[p].user)
    \/ Done(p, "define_currency") /\ ~IsNone(locals[p].mint_id)

\* C16: a request that has ended with a validation error (a missing
\* parameter, 400; a name conflict, 409; an amount that is not numeric) has
\* ended before any call to an external collaborator has returned.
C16_ValidationBeforeExternal ==
    \A p \in Procs :
        /\ (DoneIssueOrTransfer(p) \/ Done(p, "define_user")
               \/ Done(p, "define_currency")) =>
              (response[p].code \in {400, 409} => ~ExternalReturned(p))
        /\ (DoneIssueOrTransfer(p) /\ InvalidAmount(p)) => ~ExternalReturned(p)

\* C17: an issue or transfer request that has ended on an amount that is
\* not numeric (its ids resolved, the currency spec read) has ended with a
\* classified error of its own, not with 500 as for a failure of the
\* ledger; an unknown currency id ends with 404 and a missing parameter
\* with 400.
C17_ErrorsDistinguishable ==
    \A p \in Procs :
        DoneIssueOrTransfer(p) =>
            LET l == locals[p]
            IN /\ IsNone(l.currency) => response[p].code = 404
               /\ (~IsNone(l.currency) /\ IsNone(l.amount)) =>
                      response[p].code = 400
               /\ (InvalidAmount(p) /\ ExternalReturned(p)) =>
                      response[p].code \in {400, 404, 409}

\* C18: in every state the amount of every log entry is numeric and, scaled
\* by the decimal of its currency, a non-negative integer.
C18_AmountsNonNegative ==
    \A k \in 1..Len(tx_table) :
        LET f == float(tx_table[k].amount)
            decimal == The(get_currency_spec(tx_table[k].mint_id)).decimal
        IN /\ ~IsNone(f)
           /\ ~(The(f).neg /\ The(f).num > 0)
           /\ (The(f).num * Pow10(decimal)) % Pow10(The(f).scale) = 0

\* the users a request is about
UsersOf(p) ==
    IF op[p] = "issue_to_user"
    THEN {The(locals[p].hex_user_id)}
    ELSE {The(locals[p].hex_from_user_id), The(locals[p].hex_to_user_id)}

\* the log `table` with the entry of the finished request p added
LoggedBy(p, table) ==
    LET l == locals[p]
    IN IF op[p] = "issue_to_user"
       THEN IssueRow(table, The(l.tx), The(l.currency), The(l.user),
                     The(l.amount), l.s_label)
       ELSE TransferRow(table, The(l.tx), The(l.currency), The(l.from_user),
                        The(l.to_user), The(l.amount), l.s_label)

\* Requests 1 and 2 have both succeeded, each began before the other wrote
\* to the log, and they share no user and no currency.
DisjointOverlap ==
    /\ \A p \in Procs : DoneIssueOrTransfer(p) /\ response[p].code = 200
    /\ pre[1][3] = pre[2][3]
    /\ The(locals[1].currency).user_id # The(locals[2].currency).user_id
    /\ UsersOf(1) \cap UsersOf(2) = {}

\* C20: when two requests on disjoint identities have run at the same time,
\* the identity tables are the ones the later request began with and, for
\* every currency, the entries of the log are in both orders those of
\* running the two requests one after the other.
C20_DisjointNoInterference ==
    DisjointOverlap =>
        /\ \E p \in Procs : /\ user_table = pre[p][1]
                            /\ currency_table = pre[p][2]
        /\ \A n \in 1..Len(IdPool) :
              /\ TxWhere(tx_table, IdOf(n), 0, None)
                   = TxWhere(LoggedBy(2, LoggedBy(1, pre[1][3])), IdOf(n), 0, None)
              /\ TxWhere(tx_table, IdOf(n), 0, None)
                   = TxWhere(LoggedBy(1, LoggedBy(2, pre[1][3])), IdOf(n), 0, None)

\* C20 witness: after a first entry, an issue and a transfer on disjoint
\* identities have run at the same time; the ledger accepted the issue
\* first and the transfer was logged first.
C20_Witness ==
    /\ DisjointOverlap
    /\ Len(pre[1][3]) = 1
    /\ Len(tx_table) = 3
    /\ tx_table[2].tx_id = The(locals[2].tx).transaction_id
    /\ The(locals[1].tx).transaction_id = TxIdOf(2)
    /\ locals[2].hex_from_user_id # locals[2].hex_to_user_id

\* the request of slot p has ended and an external call of it had failed
\* or was never made: the ledger returned no transaction, the currency's
\* spec is not registered, or the registry refused the new key
ExternalFailed(p) ==
    /\ pc[p] = "done"
    /\ response[p].code = 500
    /\ \/ /\ op[p] \in {"issue_to_user", "transfer_to_user",
                        "swap_between_users"}
          /\ IsNone(locals[p].tx)
       \/ /\ op[p] = "define_currency"
          /\ \/ IsNone(locals[p].currency_spec)
             \/ The(locals[p].currency_spec) \notin specs
       \/ op[p] = "replace_keypair"

\* C21: every entry of the log carries the id of a transaction the ledger
\* accepted, every identity row carries an id the registry handed out,
\* every currency row has its condition and its spec registered with the
\* ledger, and a request whose external call failed leaves the three tables
\* as they were when it began.
C21_IndexRecordsAccepted ==
    /\ \A i \in 1..Len(tx_table) :
          \E n \in 1..next_tx : tx_table[i].tx_id = TxIdOf(n)
    /\ \A i \in 1..Len(user_table) :
          \E n \in 1..next_id : user_table[i].user_id = IdOf(n)
    /\ \A i \in 1..Len(currency_table) :
          /\ \E n \in 1..next_id : currency_table[i].user_id = IdOf(n)
          /\ currency_table[i].user_id \in conditions
          /\ ~IsNone(get_currency_spec(currency_table[i].user_id))
    /\ \A p \in Procs : ExternalFailed(p) => tables = pre[p]

\* C21 witness: with a currency defined and an entry in the log, the
\* registry has refused the replacement of a user's keypair.
C21_Witness ==
    /\ Done(1, "replace_keypair")
    /\ ExternalFailed(1)
    /\ currency_table # <<>>
    /\ tx_table # <<>>

\* the request of slot p has ended with MissingParameter or a bad content
\* type (400), NotFound (404) or Conflict (409)
Rejected(p) == pc[p] = "done" /\ response[p].code \in {400, 404, 409}

\* C22: a request that has ended with 400, 404 or 409 leaves user_table,
\* currency_table and tx_table as they were when it began.
C22_RejectedLeavesTables ==
    \A p \in Procs : Rejected(p) => tables = pre[p]

\* C22 witness: with a user, a currency and an entry in the log, the
\* definition of a currency has been refused after its second check, its
\* name being a user's.
C22_Witness ==
    /\ Done(1, "define_currency")
    /\ response[1].code = 409
    /\ ~user_exists(The(locals[1].name), currency_table)
    /\ currency_table # <<>>
    /\ tx_table # <<>>

=============================================================================
